---- MODULE Spec2Model ----
(***************************************************************************)
(* Two-party MPC field layer of collaborative-zksnark: MpcField, the       *)
(* tagged union Public(F) | Shared(S) of mpc-algebra/src/ss/wire/field.rs, *)
(* its dispatch of the field operations, publicize / set_shared / reveal,  *)
(* the dummy Beaver source, and the channel the protocol operations run    *)
(* over.  Two parties execute the same program, one instruction at a time, *)
(* each at its own pace; they meet only in the channel's exchange.         *)
(*                                                                         *)
(* ScalarShare, the channel, check_eq and the Add/Sub/Neg implementations  *)
(* (macro-generated) are not among the source files at hand; they are      *)
(* modelled from the specification's sections 3, 4.1, 4.2 and 4.4.         *)
(***************************************************************************)
EXTENDS Integers, Sequences, FiniteSets, TLC

\* ------------------------------------------------------------------ bounds
\* The field F is Z_P, P the PrimeIdx-th entry of Primes.
PrimeIdx == 1
\* mpc_squaring_circuit is run with 1 .. MaxSq squarings.
MaxSq == 2
Primes == <<3, 5, 7, 11>>
P == Primes[PrimeIdx]
F == 0 .. (P - 1)
Party == {0, 1}
Peer(p) == 1 - p

\* ------------------------------------------------------- the plain field F
FAdd(a, b) == (a + b) % P
FSub(a, b) == (a - b + P) % P
FNeg(a) == (P - a) % P
FMul(a, b) == (a * b) % P
\* x.inverse(): None for zero
FHasInv(a) == a # 0
FInv(a) == CHOOSE b \in F : (a * b) % P = 1
FOne == 1 % P
FZero == 0
\* F::from(2u8)
FTwo == 2 % P

\* no field element: Option::None, an error, no result yet
NoVal == P
\* F::from_repr(r): None unless the integer r is below the modulus
F_from_repr(r) == IF r < P THEN r ELSE NoVal
\* F::from_str(s): the decimal digits of s, read in the field; an error
\* (P) for the empty string, a character that is no digit, a leading zero.
\* A string is a sequence of characters: the digits 0 .. 9, or NonDigit.
NonDigit == 10
IsDigit(c) == c \in 0 .. 9
RECURSIVE Digits(_)
Digits(s) ==
  IF s = <<>> THEN FZero
  ELSE FAdd(FMul(Digits(SubSeq(s, 1, Len(s) - 1)), 10 % P), s[Len(s)] % P)
F_from_str(s) ==
  IF s = <<>> THEN NoVal
  ELSE IF s = <<0>> THEN FZero
  ELSE IF (\E i \in 1 .. Len(s) : ~IsDigit(s[i])) \/ s[1] = 0 THEN NoVal
  ELSE Digits(s)
\* F::FftParams: a generator of the multiplicative group, the root of unity
\* of the largest power of two dividing P - 1, and the root of unity of the
\* large subgroup, which exists only if P - 1 has an odd factor.
RECURSIVE FPow(_, _)
FPow(g, k) == IF k = 0 THEN FOne ELSE FMul(g, FPow(g, k - 1))
Order(g) == CHOOSE k \in 1 .. (P - 1) :
              FPow(g, k) = FOne /\ \A j \in 1 .. (k - 1) : FPow(g, j) # FOne
F_multiplicative_generator ==
  CHOOSE g \in 1 .. (P - 1) :
    Order(g) = P - 1 /\ \A h \in 1 .. (g - 1) : Order(h) # P - 1
RECURSIVE OddPart(_)
OddPart(m) == IF m % 2 = 0 THEN OddPart(m \div 2) ELSE m
F_two_adic_root_of_unity == FPow(F_multiplicative_generator, OddPart(P - 1))
F_large_subgroup_root_of_unity ==
  IF OddPart(P - 1) = 1 THEN NoVal ELSE F_multiplicative_generator

\* ------------------------------------------------------------ party identity
am_first(p) == p = 0

\* ------------------------------------------------- ScalarShare (additive)
\* A share is the party's local field element; the pair sums to the value.
share_add(s, t) == FAdd(s, t)
share_sub(s, t) == FSub(s, t)
share_neg(s) == FNeg(s)
scale(s, k) == FMul(s, k)
\* shift adds the public k to party 0's share only
shift(s, k, p) == IF am_first(p) THEN FAdd(s, k) ELSE s
share_from_add_shared(b) == b
share_from_public(b, p) == IF am_first(p) THEN b ELSE FZero
unwrap_as_public(s) == s
\* wrap_as_shared that negates what it wraps
wrap_as_shared_negated(v) == FNeg(v)
wrap_as_shared(v) == v

\* ---------------------------------------------- DummyScalarTripleSource
\* triple that gives both parties the share one
triple_same_on_both(p) ==
  << share_from_add_shared(FOne), share_from_add_shared(FOne),
     share_from_add_shared(FOne) >>
triple(p) ==
  << share_from_add_shared(IF am_first(p) THEN FOne ELSE FZero),
     share_from_add_shared(IF am_first(p) THEN FOne ELSE FZero),
     share_from_add_shared(IF am_first(p) THEN FOne ELSE FZero) >>
inv_pair(p) ==
  << share_from_add_shared(IF am_first(p) THEN FOne ELSE FZero),
     share_from_add_shared(IF am_first(p) THEN FOne ELSE FZero) >>

\* ------------------------------------------------ Beaver multiplication
\* step 1: the masked shares d = x - a, e = y - b a party sends
beaver_masked(xs, ys, p) ==
  << share_sub(xs, triple(p)[1]), share_sub(ys, triple(p)[2]) >>
\* step 3: z = c + D*b + E*a + D*E, the constant D*E on party 0 only
beaver_finish(D, E, p) ==
  shift(share_add(triple(p)[3],
                  share_add(scale(triple(p)[2], D), scale(triple(p)[1], E))),
        FMul(D, E), p)

\* ------------------------------------------------------------- MpcField
Public(v) == [tag |-> "Public", v |-> v]
Shared(s) == [tag |-> "Shared", v |-> s]
MpcField == [tag : {"Public", "Shared"}, v : F]

is_shared(x) == x.tag = "Shared"
\* from_public that wraps its argument as a share
from_public_shared(b) == Shared(share_from_add_shared(b))
from_public(b) == Public(b)
from_add_shared(b) == Shared(share_from_add_shared(b))
one == Public(FOne)

\* What an operation comes to on one party: a value computed locally
\* ("ret"), no value ("none": Option::None), a panic, or a protocol of the
\* share type that goes through the channel ("mul": Beaver on shares a, b;
\* "inv": inversion of share a, the result scaled by k; "div": share a
\* times the inverse of share b).
Ret(val) == [kind |-> "ret", val |-> val, a |-> NoVal, b |-> NoVal, k |-> NoVal]
RetNone == [kind |-> "none", val |-> Public(FZero), a |-> NoVal, b |-> NoVal, k |-> NoVal]
Panic == [kind |-> "panic", val |-> Public(FZero), a |-> NoVal, b |-> NoVal, k |-> NoVal]
CallMul(xs, ys) == [kind |-> "mul", val |-> Shared(FZero), a |-> xs, b |-> ys, k |-> NoVal]
CallInv(xs, k) == [kind |-> "inv", val |-> Shared(FZero), a |-> xs, b |-> NoVal, k |-> k]
CallDiv(xs, ys) == [kind |-> "div", val |-> Shared(FZero), a |-> xs, b |-> ys, k |-> NoVal]
\* unimplemented!() and todo!(): a panic of their own kind
Unimplemented ==
  [kind |-> "unimplemented", val |-> Public(FZero), a |-> NoVal, b |-> NoVal, k |-> NoVal]

\* FromStr::from_str, PrimeField::from_repr and the constants of FftField:
\* the plain field's value, wrapped; none where the plain field has none.
from_str(s) == IF F_from_str(s) = NoVal THEN RetNone ELSE Ret(Public(F_from_str(s)))
from_repr(r) ==
  IF F_from_repr(r) = NoVal THEN RetNone ELSE Ret(from_public(F_from_repr(r)))
two_adic_root_of_unity == Ret(from_public(F_two_adic_root_of_unity))
large_subgroup_root_of_unity ==
  IF F_large_subgroup_root_of_unity = NoVal THEN RetNone
  ELSE Ret(from_public(F_large_subgroup_root_of_unity))
multiplicative_generator == Ret(from_public(F_multiplicative_generator))

\* frobenius_map that is the identity for the power zero
frobenius_map_identity(x, power) == IF power = 0 THEN Ret(x) ELSE Unimplemented
\* Field::frobenius_map and SquareRootField: not implemented
frobenius_map(x, power) == Unimplemented
legendre(x) == Unimplemented
sqrt(x) == Unimplemented
sqrt_in_place(x) == Unimplemented

\* inv that gives none for a zero share as it does for a Public zero
inv_none_on_zero_share(x) ==
  IF x.v = FZero THEN RetNone
  ELSE IF x.tag = "Public" THEN Ret(Public(FInv(x.v)))
  ELSE CallInv(x.v, FOne)
\* MpcField::inv
inv(x) ==
  IF x.tag = "Public"
  THEN (IF FHasInv(x.v) THEN Ret(Public(FInv(x.v))) ELSE RetNone)
  ELSE CallInv(x.v, FOne)

\* mul with the product of two Shared values taken share by share
mul_local_product(x, y) ==
  CASE x.tag = "Public" /\ y.tag = "Public" -> Ret(Public(FMul(x.v, y.v)))
    [] x.tag = "Public" /\ y.tag = "Shared" -> Ret(Shared(scale(y.v, x.v)))
    [] x.tag = "Shared" /\ y.tag = "Public" -> Ret(Shared(scale(x.v, y.v)))
    [] x.tag = "Shared" /\ y.tag = "Shared" -> Ret(Shared(FMul(x.v, y.v)))
\* mul with a shortcut for a zero public factor, which returns Public(0)
mul_zero_shortcut(x, y) ==
  CASE x.tag = "Public" /\ y.tag = "Public" -> Ret(Public(FMul(x.v, y.v)))
    [] x.tag = "Public" /\ y.tag = "Shared" ->
         (IF x.v = FZero THEN Ret(Public(FZero)) ELSE Ret(Shared(scale(y.v, x.v))))
    [] x.tag = "Shared" /\ y.tag = "Public" ->
         (IF y.v = FZero THEN Ret(Public(FZero)) ELSE Ret(Shared(scale(x.v, y.v))))
    [] x.tag = "Shared" /\ y.tag = "Shared" -> CallMul(x.v, y.v)
\* mul that runs the Beaver protocol whenever the left factor is Shared
mul_beaver_shared_lhs(x, y) ==
  CASE x.tag = "Public" /\ y.tag = "Public" -> Ret(Public(FMul(x.v, y.v)))
    [] x.tag = "Public" /\ y.tag = "Shared" -> Ret(Shared(scale(y.v, x.v)))
    [] x.tag = "Shared" -> CallMul(x.v, y.v)
\* mul that runs the Beaver protocol whenever the right factor is Shared
mul_beaver_shared_rhs(x, y) ==
  CASE x.tag = "Public" /\ y.tag = "Public" -> Ret(Public(FMul(x.v, y.v)))
    [] x.tag = "Shared" /\ y.tag = "Public" -> Ret(Shared(scale(x.v, y.v)))
    [] y.tag = "Shared" -> CallMul(x.v, y.v)
\* mul whose arm (Public, Shared) returns the scaled share as a Public value
mul_unwraps(x, y) ==
  CASE x.tag = "Public" /\ y.tag = "Public" -> Ret(Public(FMul(x.v, y.v)))
    [] x.tag = "Public" /\ y.tag = "Shared" -> Ret(Public(scale(y.v, x.v)))
    [] x.tag = "Shared" /\ y.tag = "Public" -> Ret(Shared(scale(x.v, y.v)))
    [] x.tag = "Shared" /\ y.tag = "Shared" -> CallMul(x.v, y.v)

\* impl Mul for MpcField
mul(x, y) ==
  CASE x.tag = "Public" /\ y.tag = "Public" -> Ret(Public(FMul(x.v, y.v)))
    [] x.tag = "Public" /\ y.tag = "Shared" -> Ret(Shared(scale(y.v, x.v)))
    [] x.tag = "Shared" /\ y.tag = "Public" -> Ret(Shared(scale(x.v, y.v)))
    [] x.tag = "Shared" /\ y.tag = "Shared" -> CallMul(x.v, y.v)

\* div whose arm (Shared, Public) returns the scaled share as a Public value
div_unwraps(x, y) ==
  CASE x.tag = "Public" /\ y.tag = "Public" ->
         (IF FHasInv(y.v) THEN Ret(Public(FMul(x.v, FInv(y.v)))) ELSE Panic)
    [] x.tag = "Public" /\ y.tag = "Shared" -> CallInv(y.v, x.v)
    [] x.tag = "Shared" /\ y.tag = "Public" ->
         (IF FHasInv(y.v) THEN Ret(Public(scale(x.v, FInv(y.v)))) ELSE Panic)
    [] x.tag = "Shared" /\ y.tag = "Shared" -> CallDiv(x.v, y.v)
\* impl Div for MpcField; the plain field's division and unwrap() of the
\* inverse of zero panic.
div(x, y) ==
  CASE x.tag = "Public" /\ y.tag = "Public" ->
         (IF FHasInv(y.v) THEN Ret(Public(FMul(x.v, FInv(y.v)))) ELSE Panic)
    [] x.tag = "Public" /\ y.tag = "Shared" -> CallInv(y.v, x.v)
    [] x.tag = "Shared" /\ y.tag = "Public" ->
         (IF FHasInv(y.v) THEN Ret(Shared(scale(x.v, FInv(y.v)))) ELSE Panic)
    [] x.tag = "Shared" /\ y.tag = "Shared" -> CallDiv(x.v, y.v)

\* Add, Sub, Neg (impl_basics_2!), by the dispatch table of section 4.4
add(x, y, p) ==
  CASE x.tag = "Public" /\ y.tag = "Public" -> Ret(Public(FAdd(x.v, y.v)))
    [] x.tag = "Public" /\ y.tag = "Shared" -> Ret(Shared(shift(y.v, x.v, p)))
    [] x.tag = "Shared" /\ y.tag = "Public" -> Ret(Shared(shift(x.v, y.v, p)))
    [] x.tag = "Shared" /\ y.tag = "Shared" -> Ret(Shared(share_add(x.v, y.v)))
sub(x, y, p) ==
  CASE x.tag = "Public" /\ y.tag = "Public" -> Ret(Public(FSub(x.v, y.v)))
    [] x.tag = "Public" /\ y.tag = "Shared" ->
         Ret(Shared(shift(share_neg(y.v), x.v, p)))
    [] x.tag = "Shared" /\ y.tag = "Public" ->
         Ret(Shared(shift(x.v, FNeg(y.v), p)))
    [] x.tag = "Shared" /\ y.tag = "Shared" -> Ret(Shared(share_sub(x.v, y.v)))
neg(x) ==
  IF x.tag = "Public" THEN Ret(Public(FNeg(x.v))) ELSE Ret(Shared(share_neg(x.v)))

\* Field::double / double_in_place / square / square_in_place
\* double_in_place whose factor two is a Shared value
double_in_place_shared_two(x) == mul(x, Shared(FTwo))
double(x) == mul(Public(FTwo), x)
double_in_place(x) == mul(x, Public(FTwo))
square(x) == mul(x, x)
square_in_place(x) == mul(x, x)

\* MpcWire::set_shared
set_shared(x, shared) ==
  IF shared # is_shared(x)
  THEN (IF x.tag = "Shared"
        THEN Public(unwrap_as_public(x.v))
        ELSE Shared(wrap_as_shared(x.v)))
  ELSE x

\* ------------------------------------------------------------ the program
\* One instruction of the program both parties run on their accumulator x:
\* op, which operand x is (lhs: "self" puts x on the left), the other
\* operand y (its tag, and the value each party holds for it: the same
\* value for a Public one, the party's share for a Shared one), and the
\* argument of set_shared.  mpc_squaring_circuit(start, n) is an instruction
\* too: it leaves the chain in chain[p], and its last element in x.
Konst(v) == [p \in Party |-> v]
Unary == {"neg", "square", "square_in_place", "double", "double_in_place",
          "inverse", "publicize", "reveal"}
Binary == {"add", "sub", "mul", "div"}
FieldOps == Binary \cup {"neg", "square", "square_in_place", "double",
                         "double_in_place", "inverse"}
Lifts == {"from_public", "from_add_shared", "mpc_squaring_circuit"}
\* the constructors without a Shared argument, and the strings and
\* integers they are given
Constants == {"one", "two_adic_root_of_unity", "large_subgroup_root_of_unity",
              "multiplicative_generator"}
Constructors == Constants \cup {"from_repr", "from_str"}
Strs == {<<>>, <<0>>, <<1>>, <<2>>, <<1, 0>>, <<1, 1>>, <<0, 1>>, <<NonDigit>>,
         <<1, NonDigit>>}
Reprs == 0 .. P
Unsupported == {"frobenius_map", "legendre", "sqrt", "sqrt_in_place"}
Powers == {0, 1}
Instr ==
  [op : Unary, lhs : {"self"}, ytag : {"Public"}, yv : {Konst(FZero)}, b : {FALSE}, n : {0}]
  \cup [op : {"set_shared"}, lhs : {"self"}, ytag : {"Public"},
        yv : {Konst(FZero)}, b : BOOLEAN, n : {0}]
  \cup [op : {"from_public"}, lhs : {"self"}, ytag : {"Public"},
        yv : {Konst(v) : v \in F}, b : {FALSE}, n : {0}]
  \cup [op : {"from_add_shared"}, lhs : {"self"}, ytag : {"Shared"},
        yv : [Party -> F], b : {FALSE}, n : {0}]
  \cup [op : Binary, lhs : {"self", "other"}, ytag : {"Public"},
        yv : {Konst(v) : v \in F}, b : {FALSE}, n : {0}]
  \cup [op : Binary, lhs : {"self", "other"}, ytag : {"Shared"},
        yv : [Party -> F], b : {FALSE}, n : {0}]
  \cup [op : {"mpc_squaring_circuit"}, lhs : {"self"}, ytag : {"Public"},
        yv : {Konst(v) : v \in F}, b : {FALSE}, n : 1 .. MaxSq]
  \cup [op : Constants, lhs : {"self"}, ytag : {"Public"}, yv : {Konst(FZero)},
        b : {FALSE}, n : {0}]
  \cup [op : {"from_repr"}, lhs : {"self"}, ytag : {"Public"},
        yv : {Konst(r) : r \in Reprs}, b : {FALSE}, n : {0}]
  \cup [op : {"from_str"}, lhs : {"self"}, ytag : {"Public"},
        yv : {Konst(str) : str \in Strs}, b : {FALSE}, n : {0}]
  \cup [op : {"legendre", "sqrt", "sqrt_in_place"}, lhs : {"self"},
        ytag : {"Public"}, yv : {Konst(FZero)}, b : {FALSE}, n : {0}]
  \cup [op : {"frobenius_map"}, lhs : {"self"}, ytag : {"Public"},
        yv : {Konst(k) : k \in Powers}, b : {FALSE}, n : {0}]

NoneVal == P + 1
Waiting == {"mul", "inv_mul", "inv_open", "open", "chk", "xchg"}

VARIABLES
  debug,   \* the build has debug assertions (debug_assert! is compiled in)
  x,       \* x[p]: party p's accumulator, an MpcField
  cur,     \* the instruction under way
  pc,      \* pc[p]: "ready", the exchange party p is blocked in, or "done"
  loc,     \* loc[p]: the shares of the protocol under way
  chain,   \* chain[p]: party p's RepeatedSquaringCircuit.chain
  chan,    \* chan[p]: the messages party p has sent and its peer not yet read
  evts,    \* evts[p]: the exchanges party p issued in this instruction, each
           \* with the operation that issued it and its payload's size
  res,     \* res[p]: what the instruction returned to party p
  status,  \* status[p]: "ok" or the fatal error that ended the party's run
  ref,     \* the plain-field value of x, computed in F (NoVal: undefined)
  bad,     \* party 1's share of x is a corrupted one: x no longer sums to
           \* the value the program computed
  nops,    \* field operations since the last lift: 0, 1, or 2 for more
  opt,     \* the command line: opt.field (mpc, local, ark_local) and
           \* opt.proof_system (groth16, marlin)
  proc,    \* proc[p]: party p's process: ph, its place in main / run; net,
           \* its channel (none: never initialised, up, down: released);
           \* stats, the exchanges its channel statistics count; stray, a
           \* channel operation it issued while the channel was not up;
           \* inputs, its public_inputs
  drv      \* the proof driver: stage, its place in squarings::*::mpc
           \* ("free": no driver, any program of MpcField operations), the
           \* start a and the size n it drew, and forked: one party alone
           \* has changed the tag of its value

vars == <<debug, x, cur, pc, loc, chain, chan, evts, res, status, ref, bad, nops,
          opt, proc, drv>>

\* the operations behind party p's exchanges of this instruction, in order
Kinds(p) == [i \in 1 .. Len(evts[p]) |-> evts[p][i].kind]
BothDone == \A p \in Party : pc[p] = "done"

Operand(p) == [tag |-> cur.ytag, v |-> cur.yv[p]]
Lhs(p) == IF cur.lhs = "self" THEN x[p] ELSE Operand(p)
Rhs(p) == IF cur.lhs = "self" THEN Operand(p) ELSE x[p]

\* What the instruction comes to on party p (publicize and reveal apart).
Plan(p) ==
  CASE cur.op = "add" -> add(Lhs(p), Rhs(p), p)
    [] cur.op = "sub" -> sub(Lhs(p), Rhs(p), p)
    [] cur.op = "mul" -> mul(Lhs(p), Rhs(p))
    [] cur.op = "div" -> div(Lhs(p), Rhs(p))
    [] cur.op = "neg" -> neg(x[p])
    [] cur.op = "square" -> square(x[p])
    [] cur.op = "square_in_place" -> square_in_place(x[p])
    [] cur.op = "double" -> double(x[p])
    [] cur.op = "double_in_place" -> double_in_place(x[p])
    [] cur.op = "inverse" -> inv(x[p])
    [] cur.op = "set_shared" -> Ret(set_shared(x[p], cur.b))
    [] cur.op = "from_public" -> Ret(from_public(cur.yv[p]))
    [] cur.op = "from_add_shared" -> Ret(from_add_shared(cur.yv[p]))
    [] cur.op = "frobenius_map" -> frobenius_map(x[p], cur.yv[p])
    [] cur.op = "legendre" -> legendre(x[p])
    [] cur.op = "sqrt" -> sqrt(x[p])
    [] cur.op = "sqrt_in_place" -> sqrt_in_place(x[p])
    [] cur.op = "one" -> Ret(one)
    [] cur.op = "from_repr" -> from_repr(cur.yv[p])
    [] cur.op = "from_str" -> from_str(cur.yv[p])
    [] cur.op = "two_adic_root_of_unity" -> two_adic_root_of_unity
    [] cur.op = "large_subgroup_root_of_unity" -> large_subgroup_root_of_unity
    [] cur.op = "multiplicative_generator" -> multiplicative_generator

\* The same operations on the plain value r, in F.
YVal(i) == IF i.ytag = "Public" THEN i.yv[0] ELSE FAdd(i.yv[0], i.yv[1])
RECURSIVE SqIter(_, _)
SqIter(v, k) == IF k = 0 THEN v ELSE FMul(SqIter(v, k - 1), SqIter(v, k - 1))
\* raw_chain: start, start^2, start^4, ... (squarings + 1 elements)
RawChain(start, squarings) == [i \in 1 .. squarings + 1 |-> SqIter(start, i - 1)]

\* the field element constructor i gives (NoVal: none)
Constructed(i) ==
  CASE i.op = "one" -> FOne
    [] i.op = "from_repr" -> F_from_repr(i.yv[0])
    [] i.op = "from_str" -> F_from_str(i.yv[0])
    [] i.op = "two_adic_root_of_unity" -> F_two_adic_root_of_unity
    [] i.op = "large_subgroup_root_of_unity" -> F_large_subgroup_root_of_unity
    [] i.op = "multiplicative_generator" -> F_multiplicative_generator
\* instruction i puts a new value in the accumulator's place
IsLift(i) == i.op \in Lifts \/ (i.op \in Constructors /\ Constructed(i) # NoVal)

PlainApply(r, i) ==
  CASE i.op = "from_public" -> i.yv[0]
    [] i.op \in Constructors -> IF Constructed(i) = NoVal THEN r ELSE Constructed(i)
    [] i.op = "mpc_squaring_circuit" -> RawChain(i.yv[0], i.n)[i.n + 1]
    [] i.op = "from_add_shared" -> FAdd(i.yv[0], i.yv[1])
    [] i.op \in {"publicize", "reveal", "reset_stats", "verify"} -> r
    [] i.op = "set_shared" \/ i.op \in Unsupported -> NoVal
    [] r = NoVal -> NoVal
    [] i.op = "add" -> FAdd(r, YVal(i))
    [] i.op = "sub" -> IF i.lhs = "self" THEN FSub(r, YVal(i)) ELSE FSub(YVal(i), r)
    [] i.op = "mul" -> FMul(r, YVal(i))
    [] i.op = "div" ->
         IF i.lhs = "self"
         THEN (IF YVal(i) = 0 THEN NoVal ELSE FMul(r, FInv(YVal(i))))
         ELSE (IF r = 0 THEN NoVal ELSE FMul(YVal(i), FInv(r)))
    [] i.op = "neg" -> FSub(0, r)
    [] i.op \in {"square", "square_in_place"} -> FMul(r, r)
    [] i.op \in {"double", "double_in_place"} -> FAdd(r, r)
    [] i.op = "inverse" -> IF r = 0 THEN NoVal ELSE FInv(r)

\* ------------------------------------------------------------ the channel
\* exchange(payload): a message of the channel, with the operation that
\* sent it.
BeaverMsg(xs, ys, p) == [kind |-> "mul", data |-> beaver_masked(xs, ys, p)]
OpenMsg(s) == [kind |-> "open", data |-> <<s>>]
CheckMsg(v) == [kind |-> "check_eq", data |-> <<v>>]
ExchangeMsg(vec) == [kind |-> "exchange", data |-> vec]
\* the number of field elements the exchange a party is blocked in expects
ExpectedLen(at, sent) ==
  IF at \in {"mul", "inv_mul"} THEN 2 ELSE IF at = "xchg" THEN sent ELSE 1

\* macros::check_eq is a debug-mode barrier: compiled out of other builds.
check_eq_active(dbg) == dbg
\* publicize without its check
publicize_unchecked(dbg) == FALSE
\* publicize wraps its check_eq in debug_assert!; reveal calls it as is.
publicize_checks(dbg) == dbg /\ check_eq_active(dbg)
reveal_checks(dbg) == check_eq_active(dbg)
Checks(op) == IF op = "publicize" THEN publicize_checks(debug) ELSE reveal_checks(debug)

\* ------------------------------------------------------ a party's steps
NoLoc == <<NoVal, NoVal>>
Eff(xv, at, lv, msgs, rv, st) ==
  [x |-> xv, pc |-> at, loc |-> lv, msgs |-> msgs, res |-> rv, status |-> st,
   chain |-> <<>>]
Done(p, xv, rv) == Eff(xv, "done", NoLoc, <<>>, rv, "ok")
Abort(p, st) == Eff(x[p], "dead", NoLoc, <<>>, res[p], st)

\* publicize / reveal once the public value v is known: publicize has
\* replaced *self by Public(v); reveal returns v after its check_eq.
Known(p, v) ==
  LET xv == IF cur.op = "publicize" THEN Public(v) ELSE x[p]
  IN  IF Checks(cur.op)
      THEN Eff(xv, "chk", <<v, NoVal>>, <<CheckMsg(v)>>, res[p], "ok")
      ELSE Done(p, xv, IF cur.op = "reveal" THEN v ELSE res[p])

\* publicize that takes the local share for the value, without open
publicize_no_open(p) == Known(p, x[p].v)
\* publicize that opens whatever the tag
publicize_always_open(p) ==
  Eff(x[p], "open", NoLoc, <<OpenMsg(x[p].v)>>, res[p], "ok")
\* reveal that opens whatever the tag
reveal_always_open(p) ==
  Eff(x[p], "open", NoLoc, <<OpenMsg(x[p].v)>>, res[p], "ok")
\* reveal that takes the local share for the value, without open
reveal_local(p) == Known(p, x[p].v)

\* MpcWire::publicize and Reveal::reveal up to their first exchange
publicize(p) ==
  IF is_shared(x[p])
  THEN Eff(x[p], "open", NoLoc, <<OpenMsg(x[p].v)>>, res[p], "ok")
  ELSE Known(p, x[p].v)
reveal(p) ==
  IF is_shared(x[p])
  THEN Eff(x[p], "open", NoLoc, <<OpenMsg(x[p].v)>>, res[p], "ok")
  ELSE Known(p, x[p].v)

\* mpc_squaring_circuit: party 0 shares the chain (first_shares = v + r for
\* itself, second_shares = -r for the peer); party 1 sends zeros and takes
\* what it receives.  Both call exchange once, then wrap their shares.
first_shares(start, squarings, r) ==
  [i \in 1 .. squarings + 1 |-> FAdd(RawChain(start, squarings)[i], r[i])]
\* second_shares that are the randomness itself, not its negation
second_shares_unnegated(squarings, r) == [i \in 1 .. squarings + 1 |-> r[i]]
second_shares(squarings, r) == [i \in 1 .. squarings + 1 |-> FNeg(r[i])]
zeros(squarings) == [i \in 1 .. squarings + 1 |-> FZero]
\* mpc_squaring_circuit whose party 1 sends one zero too few
mpc_squaring_circuit_short(p, start, squarings, r) ==
  IF am_first(p)
  THEN Eff(x[p], "xchg", first_shares(start, squarings, r),
           <<ExchangeMsg(second_shares(squarings, r))>>, res[p], "ok")
  ELSE Eff(x[p], "xchg", zeros(squarings - 1),
           <<ExchangeMsg(zeros(squarings - 1))>>, res[p], "ok")
\* mpc_squaring_circuit that sends its shares in two exchanges
mpc_squaring_circuit_twice(p, start, squarings, r) ==
  IF am_first(p)
  THEN Eff(x[p], "xchg", first_shares(start, squarings, r),
           <<ExchangeMsg(second_shares(squarings, r)),
             ExchangeMsg(second_shares(squarings, r))>>, res[p], "ok")
  ELSE Eff(x[p], "xchg", zeros(squarings),
           <<ExchangeMsg(zeros(squarings)), ExchangeMsg(zeros(squarings))>>,
           res[p], "ok")
mpc_squaring_circuit(p, start, squarings, r) ==
  IF am_first(p)
  THEN Eff(x[p], "xchg", first_shares(start, squarings, r),
           <<ExchangeMsg(second_shares(squarings, r))>>, res[p], "ok")
  ELSE Eff(x[p], "xchg", zeros(squarings),
           <<ExchangeMsg(zeros(squarings))>>, res[p], "ok")
\* my_shares, and the chain of Shared values made of them
my_shares(p, m) == IF am_first(p) THEN loc[p] ELSE m.data
CircuitDone(p, m) ==
  LET ch == [i \in 1 .. Len(my_shares(p, m)) |-> from_add_shared(my_shares(p, m)[i])]
  IN  [Done(p, ch[Len(ch)], res[p]) EXCEPT !.chain = ch]

\* assert!(verify_proof(&pvk, &proof, &public_inputs).unwrap()): the proof
\* of the chain verifies against the chain's end start^(2^n), and against
\* no other public input.
verify(p) ==
  IF proc[p].inputs = SqIter(drv.a, drv.n)
  THEN Done(p, x[p], res[p])
  ELSE Abort(p, "Panic")

\* ScalarShare::inv begins with the Beaver product s * r of the share and
\* the pair's r; ScalarShare::div inverts its divisor first.
StartEff(p, r) ==
  IF cur.op = "publicize" THEN publicize(p)
  ELSE IF cur.op = "reveal" THEN reveal(p)
  ELSE IF cur.op = "mpc_squaring_circuit"
       THEN mpc_squaring_circuit(p, cur.yv[p], cur.n, r)
  ELSE IF cur.op = "reset_stats" THEN Done(p, x[p], res[p])
  ELSE IF cur.op = "verify" THEN verify(p)
  ELSE LET pl == Plan(p) IN
    CASE pl.kind = "ret" -> Done(p, pl.val, res[p])
      [] pl.kind = "none" -> Done(p, x[p], NoneVal)
      [] pl.kind = "panic" -> Abort(p, "Panic")
      [] pl.kind = "unimplemented" -> Abort(p, "Unimplemented")
      [] pl.kind = "mul" ->
           Eff(x[p], "mul", <<pl.a, pl.b>>, <<BeaverMsg(pl.a, pl.b, p)>>, res[p], "ok")
      [] pl.kind = "inv" ->
           Eff(x[p], "inv_mul", <<pl.a, inv_pair(p)[1]>>,
               <<BeaverMsg(pl.a, inv_pair(p)[1], p)>>, res[p], "ok")
      [] pl.kind = "div" ->
           Eff(x[p], "inv_mul", <<pl.b, inv_pair(p)[1]>>,
               <<BeaverMsg(pl.b, inv_pair(p)[1], p)>>, res[p], "ok")

\* the share of the product, from the peer's masked shares m
BeaverShare(p, m) ==
  LET own == beaver_masked(loc[p][1], loc[p][2], p)
  IN  beaver_finish(FAdd(own[1], m.data[1]), FAdd(own[2], m.data[2]), p)

\* ScalarShare::open: the own share plus the peer's
open(s, m) == FAdd(s, m.data[1])

\* What party p does with the peer's message m of the exchange it is
\* blocked in, up to its next exchange.
RecvEff(p, m) ==
  IF Len(m.data) # ExpectedLen(pc[p], Len(loc[p])) THEN Abort(p, "ChannelTransport")
  ELSE CASE pc[p] = "mul" -> Done(p, Shared(BeaverShare(p, m)), res[p])
    [] pc[p] = "inv_mul" ->
         LET t == BeaverShare(p, m)
         IN  Eff(x[p], "inv_open", <<t, NoVal>>, <<OpenMsg(t)>>, res[p], "ok")
    [] pc[p] = "inv_open" ->
         LET mv == open(loc[p][1], m)
             pl == Plan(p)
         IN  IF ~FHasInv(mv) THEN Abort(p, "Panic")
             ELSE LET sinv == scale(inv_pair(p)[2], FInv(mv))
                  IN  IF pl.kind = "inv"
                      THEN Done(p, Shared(scale(sinv, pl.k)), res[p])
                      ELSE Eff(x[p], "mul", <<pl.a, sinv>>,
                               <<BeaverMsg(pl.a, sinv, p)>>, res[p], "ok")
    [] pc[p] = "open" -> Known(p, open(x[p].v, m))
    [] pc[p] = "xchg" -> CircuitDone(p, m)
    [] pc[p] = "chk" ->
         IF m.data[1] # loc[p][1] THEN Abort(p, "Desynchronized")
         ELSE Done(p, x[p], IF cur.op = "reveal" THEN loc[p][1] ELSE res[p])

\* The process of party p after a step e of the driver's program: its
\* exchanges are counted by the channel statistics (reset_stats clears
\* them), and the value publicize_unwrap returns is its public_inputs.
Counted(p, e) ==
  IF drv.stage = "free" THEN proc[p]
  ELSE [proc[p] EXCEPT
          !.stats = IF cur.op = "reset_stats" THEN 0 ELSE @ + Len(e.msgs),
          !.stray = @ \/ (proc[p].net # "up" /\ (e.msgs # <<>> \/ cur.op = "reset_stats")),
          !.inputs = IF drv.stage = "inputs" /\ e.pc = "done" /\ e.status = "ok"
                     THEN e.x.v ELSE @]

Apply(p, e, ch) ==
  /\ x' = [x EXCEPT ![p] = e.x]
  /\ pc' = [pc EXCEPT ![p] = e.pc]
  /\ loc' = [loc EXCEPT ![p] = e.loc]
  /\ chain' = [chain EXCEPT ![p] = e.chain]
  /\ chan' = [ch EXCEPT ![p] = @ \o e.msgs]
  /\ evts' = [evts EXCEPT ![p] = @ \o [i \in 1 .. Len(e.msgs) |->
                 [kind |-> e.msgs[i].kind, size |-> Len(e.msgs[i].data)]]]
  /\ res' = [res EXCEPT ![p] = e.res]
  /\ status' = [status EXCEPT ![p] = e.status]
  /\ proc' = [proc EXCEPT ![p] = Counted(p, e)]
  /\ UNCHANGED <<debug, cur, ref, bad, nops, opt, drv>>

\* ------------------------------------------------------- the proof driver
\* squarings::groth::mpc and squarings::marlin::mpc: mpc_squaring_circuit,
\* publicize_unwrap of the chain's end, reset_stats (groth only), the
\* prover (one operation of MpcField stands for it), pf_publicize, and the
\* assertion that the proof verifies.
DriverOp(op) ==
  [op |-> op, lhs |-> "self", ytag |-> "Public", yv |-> Konst(FZero),
   b |-> FALSE, n |-> 0]
ProverInstr ==
  {i \in Instr : i.op \in {"add", "mul", "square_in_place", "inverse",
                             "from_add_shared", "sqrt"} /\ i.lhs = "self"}
Script ==
  CASE drv.stage = "free" -> Instr
    [] drv.stage = "boot" ->
         IF opt.field = "mpc" /\ \A p \in Party : proc[p].ph = "run"
         THEN {i \in Instr : i.op = "mpc_squaring_circuit"}
         ELSE {}
    [] drv.stage = "witness" -> {DriverOp("publicize")}
    [] drv.stage = "inputs" ->
         IF opt.proof_system = "groth16" THEN {DriverOp("reset_stats")}
         ELSE ProverInstr
    [] drv.stage = "reset" -> ProverInstr
    [] drv.stage = "prove" -> {DriverOp("publicize")}
    [] drv.stage = "publicized" -> {DriverOp("verify")}
    [] OTHER -> {}
\* the driver's place once it has issued instruction i
\* (a value both parties construct anew ends a tag mismatch)
Advance(i) ==
  LET d == [drv EXCEPT !.forked = @ /\ i.op \notin Lifts]
  IN  CASE drv.stage = "free" -> drv
        [] drv.stage = "boot" -> [d EXCEPT !.stage = "witness", !.a = i.yv[0], !.n = i.n]
        [] drv.stage = "witness" -> [d EXCEPT !.stage = "inputs"]
        [] drv.stage = "inputs" ->
             [d EXCEPT !.stage = IF i.op = "reset_stats" THEN "reset" ELSE "prove"]
        [] drv.stage = "reset" -> [d EXCEPT !.stage = "prove"]
        [] drv.stage = "prove" -> [d EXCEPT !.stage = "publicized"]
        [] drv.stage = "publicized" -> [d EXCEPT !.stage = "verify"]
\* the process of party p has ended: main returned, or a panic ended it
Ended(p) == status[p] # "ok" \/ proc[p].ph = "exit"

\* ---------------------------------------------------------------- actions
Init ==
  /\ debug \in BOOLEAN
  /\ \E v \in F :
       /\ x = [p \in Party |-> from_public(v)]
       /\ cur = [op |-> "from_public", lhs |-> "self", ytag |-> "Public",
                 yv |-> Konst(v), b |-> FALSE, n |-> 0]
       /\ ref = v
  /\ pc = [p \in Party |-> "done"]
  /\ loc = [p \in Party |-> NoLoc]
  /\ chain = [p \in Party |-> <<>>]
  /\ chan = [p \in Party |-> <<>>]
  /\ evts = [p \in Party |-> <<>>]
  /\ res = [p \in Party |-> NoVal]
  /\ status = [p \in Party |-> "ok"]
  /\ bad = FALSE
  /\ nops = 0
  /\ opt = [field |-> "mpc", proof_system |-> "groth16"]
  /\ proc = [p \in Party |-> [ph |-> "run", net |-> "up", stats |-> 0,
                                stray |-> FALSE, inputs |-> NoVal]]
  /\ drv = [stage |-> "free", a |-> FZero, n |-> 0, forked |-> FALSE]

\* Both parties have finished the instruction: the program goes on.  The
\* start value of mpc_squaring_circuit is the a both parties drew from the
\* seeded generator: it takes the accumulator's place.
Issue(i) ==
  /\ \A p \in Party : pc[p] = "done" /\ status[p] = "ok"
  /\ drv' = Advance(i)
  /\ cur' = i
  /\ pc' = [p \in Party |-> "ready"]
  /\ evts' = [p \in Party |-> <<>>]
  /\ res' = [p \in Party |-> NoVal]
  /\ ref' = PlainApply(ref, i)
  /\ bad' = IF i.op \in {"publicize", "reveal"} THEN bad ELSE FALSE
  /\ nops' = IF IsLift(i) THEN 0
             ELSE IF i.op \in FieldOps /\ nops < 2 THEN nops + 1
             ELSE nops
  /\ chain' = [p \in Party |-> <<>>]
  /\ x' = IF i.op = "mpc_squaring_circuit"
          THEN [p \in Party |-> from_public(i.yv[p])]
          ELSE x
  /\ UNCHANGED <<debug, loc, chan, status, opt, proc>>

\* The randomness of mpc_squaring_circuit; only party 0's shares use it.
Rand(p) ==
  IF cur.op = "mpc_squaring_circuit" /\ am_first(p)
  THEN [1 .. cur.n + 1 -> F]
  ELSE {<<>>}

\* Party p runs the instruction up to its first exchange.
Start(p) ==
  /\ pc[p] = "ready"
  /\ status[p] = "ok"
  /\ \E r \in Rand(p) : Apply(p, StartEff(p, r), chan)

\* Party p, blocked in an exchange, reads the peer's message and runs on.
Recv(p) ==
  /\ pc[p] \in Waiting
  /\ status[p] = "ok"
  /\ chan[Peer(p)] # <<>>
  /\ Apply(p, RecvEff(p, Head(chan[Peer(p)])),
           [chan EXCEPT ![Peer(p)] = Tail(@)])

\* Fault of the desync scenario: between two instructions party 1's share
\* of the Shared accumulator is replaced by a different one (cur records
\* the fault in the place of an instruction).
Corrupt(delta) ==
  /\ \A p \in Party : pc[p] = "done" /\ status[p] = "ok" /\ is_shared(x[p])
  /\ ~bad
  /\ ref # NoVal
  /\ x' = [x EXCEPT ![1] = Shared(FAdd(x[1].v, delta))]
  /\ bad' = TRUE
  /\ ref' = NoVal
  /\ cur' = [op |-> "corrupt", lhs |-> "self", ytag |-> "Shared",
              yv |-> [p \in Party |-> IF p = 1 THEN delta ELSE FZero],
              b |-> FALSE, n |-> 0]
  /\ evts' = [p \in Party |-> <<>>]
  /\ res' = [p \in Party |-> NoVal]
  /\ chain' = [p \in Party |-> <<>>]
  /\ UNCHANGED <<debug, pc, loc, chan, status, nops, opt, proc, drv>>

Next ==
  \/ \E i \in Instr : Issue(i)
  \/ \E p \in Party : Start(p)
  \/ \E p \in Party : Recv(p)
  \/ \E delta \in F \ {FZero} : Corrupt(delta)

Spec == Init /\ [][Next]_vars

\* ------------------------------------------------------ a run of the binary
\* main has parsed its options; each party's process is about to call
\* FieldOpt::run.  In the modes local and ark_local one process runs alone.
RunInit ==
  /\ debug \in BOOLEAN
  /\ opt \in [field : {"mpc", "local", "ark_local"},
               proof_system : {"groth16", "marlin"}]
  /\ x = [p \in Party |-> from_public(FZero)]
  /\ cur = DriverOp("from_public")
  /\ ref = FZero
  /\ pc = [p \in Party |-> "done"]
  /\ loc = [p \in Party |-> NoLoc]
  /\ chain = [p \in Party |-> <<>>]
  /\ chan = [p \in Party |-> <<>>]
  /\ evts = [p \in Party |-> <<>>]
  /\ res = [p \in Party |-> NoVal]
  /\ status = [p \in Party |-> "ok"]
  /\ bad = FALSE
  /\ nops = 0
  /\ proc = [p \in Party |-> [ph |-> "start", net |-> "none", stats |-> 0,
                                stray |-> FALSE, inputs |-> NoVal]]
  /\ drv = [stage |-> "boot", a |-> FZero, n |-> 0, forked |-> FALSE]

\* the processes of the run: both parties in mode mpc, else one alone
Procs == IF opt.field = "mpc" THEN Party ELSE {0}

\* FieldOpt::setup: PartyInfo::setup calls channel::init in mode mpc only.
Setup(p) ==
  /\ p \in Procs
  /\ proc[p].ph = "start"
  /\ proc' = [proc EXCEPT ![p].ph = "run",
                          ![p].net = IF opt.field = "mpc" THEN "up" ELSE @]
  /\ UNCHANGED <<debug, x, cur, pc, loc, chain, chan, evts, res, status, ref,
                 bad, nops, opt, drv>>

\* FieldOpt::run in the modes local and ark_local: the computation is done
\* in the plain field, without any channel operation; ark_local has no
\* Marlin prover (unimplemented!).
Local ==
  /\ opt.field # "mpc"
  /\ proc[0].ph = "run" /\ status[0] = "ok"
  /\ drv.stage = "boot"
  /\ IF opt.field = "ark_local" /\ opt.proof_system = "marlin"
     THEN /\ status' = [status EXCEPT ![0] = "Unimplemented"]
          /\ pc' = [pc EXCEPT ![0] = "dead"]
          /\ drv' = drv
     ELSE /\ drv' = [drv EXCEPT !.stage = "verify"]
          /\ UNCHANGED <<status, pc>>
  /\ UNCHANGED <<debug, x, cur, loc, chain, chan, evts, res, ref, bad, nops,
                 opt, proc>>

\* FieldOpt::teardown once the computation has returned: in mode mpc
\* PartyInfo::teardown reads channel::stats(), then calls channel::deinit.
Teardown(p) ==
  /\ p \in Procs
  /\ proc[p].ph = "run" /\ status[p] = "ok"
  /\ drv.stage = "verify" /\ pc[p] = "done"
  /\ proc' = [proc EXCEPT
       ![p].ph = "torn",
       ![p].stray = @ \/ (opt.field = "mpc" /\ proc[p].net # "up"),
       ![p].net = IF opt.field = "mpc" THEN "down" ELSE @]
  /\ UNCHANGED <<debug, x, cur, pc, loc, chain, chan, evts, res, status, ref,
                 bad, nops, opt, drv>>

\* main after run has returned: println!(.., channel::stats()), in every
\* mode, and the process ends.
Exit(p) ==
  /\ proc[p].ph = "torn"
  /\ proc' = [proc EXCEPT ![p].ph = "exit",
                          ![p].stray = @ \/ proc[p].net # "up"]
  /\ UNCHANGED <<debug, x, cur, pc, loc, chain, chan, evts, res, status, ref,
                 bad, nops, opt, drv>>

\* exchange fails fatally on EOF: party p is blocked in an exchange, no
\* message is left for it, and the peer's process has ended.
Eof(p) ==
  /\ pc[p] \in Waiting /\ status[p] = "ok"
  /\ chan[Peer(p)] = <<>>
  /\ Ended(Peer(p))
  /\ Apply(p, Abort(p, "ChannelTransport"), chan)

\* A tag mismatch (the programming error of section 4.4): between two
\* instructions party p alone calls set_shared with the other tag.
Fork(p) ==
  /\ \A q \in Party : pc[q] = "done" /\ status[q] = "ok"
  /\ drv.stage \in {"witness", "inputs", "reset", "prove"}
  /\ ~drv.forked /\ ~bad
  /\ x' = [x EXCEPT ![p] = set_shared(x[p], ~is_shared(x[p]))]
  /\ drv' = [drv EXCEPT !.forked = TRUE]
  /\ ref' = NoVal
  /\ cur' = [DriverOp("set_shared") EXCEPT !.b = ~is_shared(x[p])]
  /\ evts' = [q \in Party |-> <<>>]
  /\ res' = [q \in Party |-> NoVal]
  /\ chain' = [q \in Party |-> <<>>]
  /\ UNCHANGED <<debug, pc, loc, chan, status, bad, nops, opt, proc>>

RunNext ==
  \/ \E p \in Party : Setup(p)
  \/ Local
  \/ \E i \in Script : Issue(i)
  \/ \E p \in Party : Start(p)
  \/ \E p \in Party : Recv(p)
  \/ \E p \in Party : Eof(p)
  \/ \E p \in Party : Fork(p)
  \/ \E delta \in F \ {FZero} : Corrupt(delta)
  \/ \E p \in Party : Teardown(p)
  \/ \E p \in Party : Exit(p)

RunSpec == RunInit /\ [][RunNext]_vars

\* ------------------------------------------------------------------ claims

\* C1 (reveal correctness): whenever reveal has returned on a party, after a
\* lift (from_public, from_add_shared with any pair of shares, the shared
\* chain) and any sequence of field operations defined in F, the value it
\* returned is the one the same operations give in the plain field.
C1_RevealCorrect ==
  \A p \in Party :
    (cur.op = "reveal" /\ pc[p] = "done" /\ ref # NoVal) => res[p] = ref
\* reveal has returned a genuinely shared value after two or more operations
C1_Witness ==
  /\ cur.op = "reveal" /\ BothDone /\ nops = 2 /\ ref # NoVal
  /\ is_shared(x[0]) /\ x[0].v # FZero /\ x[1].v # FZero
  /\ res[0] = ref /\ res[1] = ref

\* C2 (tag symmetry): at every point of the program both parties have
\* reached, their values carry the same tag.
C2_TagSymmetry ==
  pc[0] = pc[1] /\ Len(evts[0]) = Len(evts[1]) => x[0].tag = x[1].tag
\* both parties are through a division of Shared by Shared
C2_Witness ==
  /\ cur.op = "div" /\ cur.ytag = "Shared" /\ BothDone
  /\ Len(evts[0]) = 3 /\ is_shared(x[0]) /\ is_shared(x[1])

\* C3 (lock-step): both parties issue the same exchanges in the same order;
\* the message a blocked party finds is the peer's exchange of the same
\* number, of the same operation and of the same payload size; and a
\* blocked party that finds none has a running peer still to issue it.
C3_LockStep ==
  \A p \in Party :
    LET q == Peer(p)
        n == Len(evts[p])
    IN  /\ (pc[p] = "done" /\ pc[q] = "done") => evts[p] = evts[q]
        /\ (pc[p] \in Waiting /\ chan[q] # <<>>) =>
             /\ Len(evts[q]) - Len(chan[q]) + 1 = n
             /\ Head(chan[q]).kind = evts[p][n].kind
             /\ Len(Head(chan[q]).data) = evts[p][n].size
        /\ (pc[p] \in Waiting /\ chan[q] = <<>>) =>
             /\ status[q] = "ok"
             /\ pc[q] = "ready" \/ (pc[q] \in Waiting /\ Len(evts[q]) < n)
\* party 1 is blocked in the third exchange of a division, party 0 in the
\* second, with party 1's second message waiting for it
C3_Witness ==
  /\ cur.op = "div" /\ pc[1] = "mul" /\ pc[0] = "inv_open"
  /\ Len(evts[1]) = 3 /\ Len(evts[0]) = 2 /\ Len(chan[1]) = 2

\* Party p leaves the label at (it takes a step of the instruction from there).
Leaves(p, at) == pc[p] = at /\ pc'[p] # at
MulOps == {"mul", "square", "square_in_place"}
CheckEqEvts == IF debug THEN <<"check_eq">> ELSE <<>>
\* the two factors of the multiplication under way
Factor1(p) == IF cur.op = "mul" THEN Lhs(p) ELSE x[p]
Factor2(p) == IF cur.op = "mul" THEN Rhs(p) ELSE x[p]

\* C4 (multiplicativity round count): a mul, square or square_in_place of
\* two Shared values issues one exchange, the Beaver one that uses the
\* triple, and completes on its answer without another; with any other
\* pair of tags it completes at once without any exchange.
C4_MulStep ==
  \A p \in Party :
    cur.op \in MulOps =>
      /\ Leaves(p, "ready") =>
           IF is_shared(Factor1(p)) /\ is_shared(Factor2(p))
           THEN /\ pc'[p] = "mul" /\ Kinds(p)' = <<"mul">>
                /\ Len(chan'[p]) = Len(chan[p]) + 1
           ELSE pc'[p] = "done" /\ evts'[p] = <<>> /\ chan' = chan
      /\ Leaves(p, "mul") => pc'[p] = "done" /\ Kinds(p)' = <<"mul">>
C4_MulRounds == [][C4_MulStep]_vars
\* both parties have squared a Shared value in one exchange each
C4_Witness ==
  /\ cur.op = "square_in_place" /\ BothDone
  /\ Kinds(0) = <<"mul">> /\ Kinds(1) = <<"mul">>
  /\ is_shared(x[0]) /\ ref # NoVal /\ FAdd(x[0].v, x[1].v) = ref

\* C5 (linearity is local): the sum of two Shared values, and the product
\* of a Shared and a Public value in either order, are computed in one
\* step that issues no exchange and leaves the channel as it was.
C5_LinearStep ==
  \A p \in Party :
    ( /\ Leaves(p, "ready")
      /\ \/ cur.op = "add" /\ is_shared(Lhs(p)) /\ is_shared(Rhs(p))
         \/ cur.op = "mul" /\ is_shared(Lhs(p)) # is_shared(Rhs(p)) )
    => /\ pc'[p] = "done" /\ is_shared(x'[p])
       /\ evts'[p] = <<>> /\ chan' = chan
C5_LinearityLocal == [][C5_LinearStep]_vars
\* Public k times Shared a, done on both parties without any exchange
C5_Witness ==
  /\ cur.op = "mul" /\ cur.lhs = "other" /\ cur.ytag = "Public" /\ BothDone
  /\ is_shared(x[0]) /\ is_shared(x[1]) /\ evts[0] = <<>> /\ evts[1] = <<>>
  /\ ref # NoVal /\ ref # FZero /\ FAdd(x[0].v, x[1].v) = ref

LastKind(p) == Kinds(p)[Len(evts[p])]

\* C6 as claimed: after every publicize the value is Public and has been
\* compared across the parties by a check_eq exchange.
C6_Original ==
  \A p \in Party :
    (cur.op = "publicize" /\ pc[p] = "done") =>
      /\ ~is_shared(x[p])
      /\ evts[p] # <<>> /\ LastKind(p) = "check_eq"
\* C6 (publicize), amended: publicize of a Shared value issues one open and
\* replaces the value by Public(sum of both parties' shares); after every
\* publicize the value is Public; in a build with debug assertions the
\* value is then sent to check_eq, and publicize completes only from that
\* check; in a build without them no check_eq is issued.
C6_Step ==
  \A p \in Party :
    cur.op = "publicize" =>
      /\ (Leaves(p, "ready") /\ is_shared(x[p])) =>
           pc'[p] = "open" /\ Kinds(p)' = <<"open">> /\ x'[p] = x[p]
      /\ Leaves(p, "open") =>
           /\ x'[p] = Public(IF is_shared(x[Peer(p)])
                             THEN FAdd(x[p].v, x[Peer(p)].v)
                             ELSE x[Peer(p)].v)
           /\ Kinds(p)' = <<"open">> \o CheckEqEvts
           /\ pc'[p] = IF debug THEN "chk" ELSE "done"
           /\ debug => chan'[p][Len(chan'[p])] = CheckMsg(x'[p].v)
      /\ (pc[p] # "done" /\ pc'[p] = "done") =>
           /\ ~is_shared(x'[p])
           /\ debug => (pc[p] = "chk" /\ LastKind(p) = "check_eq")
           /\ ~debug => (\A i \in 1 .. Len(evts'[p]) : Kinds(p)'[i] # "check_eq")
C6_Publicize == [][C6_Step]_vars
\* a debug build has publicized a Shared value: open, then check_eq
C6_Witness ==
  /\ cur.op = "publicize" /\ BothDone /\ debug
  /\ Kinds(0) = <<"open", "check_eq">> /\ Kinds(1) = <<"open", "check_eq">>
  /\ ref # NoVal /\ x[0] = Public(ref) /\ x[1] = Public(ref)

\* C7 as claimed: publicize of a Public value changes nothing and issues no
\* network operation.
C7_OriginalStep ==
  \A p \in Party :
    (cur.op = "publicize" /\ Leaves(p, "ready") /\ ~is_shared(x[p])) =>
      x'[p] = x[p] /\ pc'[p] = "done" /\ evts'[p] = <<>> /\ chan' = chan
C7_Original == [][C7_OriginalStep]_vars
\* C7 (publicize idempotence), amended: publicize of a Public value leaves
\* the value unchanged and issues no open; in a build with debug
\* assertions it issues one exchange, that of check_eq, and in a build
\* without them no network operation at all.
C7_Step ==
  \A p \in Party :
    cur.op = "publicize" =>
      /\ (Leaves(p, "ready") /\ ~is_shared(x[p])) =>
           /\ x'[p] = x[p]
           /\ Kinds(p)' = CheckEqEvts
           /\ pc'[p] = IF debug THEN "chk" ELSE "done"
           /\ ~debug => chan' = chan
      /\ Leaves(p, "chk") => x'[p] = x[p] /\ evts'[p] = evts[p]
C7_PublicizeIdempotent == [][C7_Step]_vars
\* a debug build has publicized a Public value: one check_eq exchange
C7_Witness ==
  /\ cur.op = "publicize" /\ BothDone /\ debug
  /\ Kinds(0) = <<"check_eq">> /\ Kinds(1) = <<"check_eq">>
  /\ ref # NoVal /\ x[0] = Public(ref) /\ x[1] = Public(ref)

\* C8 as claimed: reveal of a Public value returns it and issues no exchange.
C8_Original ==
  \A p \in Party :
    (cur.op = "reveal" /\ pc[p] = "done" /\ ~is_shared(x[p])) =>
      res[p] = x[p].v /\ evts[p] = <<>>
\* C8 (public round-trip), amended: reveal of a Public value v returns v
\* without any open round; its check_eq issues one exchange in a build
\* with debug assertions, and none is issued in a build without them.
C8_PublicRoundTrip ==
  \A p \in Party :
    (cur.op = "reveal" /\ pc[p] = "done" /\ ~is_shared(x[p])) =>
      res[p] = x[p].v /\ Kinds(p) = CheckEqEvts
\* from_public(v).reveal() has returned v on both parties, debug build
C8_Witness ==
  /\ cur.op = "reveal" /\ BothDone /\ debug /\ nops = 0
  /\ ref # NoVal /\ x[0] = Public(ref) /\ res[0] = ref /\ res[1] = ref
  /\ Kinds(0) = <<"check_eq">>

\* C9 as claimed: reveal of a Shared value costs one open, then one
\* check_eq exchange.
C9_Original ==
  \A p \in Party :
    (cur.op = "reveal" /\ pc[p] = "done" /\ is_shared(x[p])) =>
      /\ res[p] = FAdd(x[0].v, x[1].v)
      /\ Kinds(p) = <<"open", "check_eq">>
\* C9 (shared reveal), amended: reveal of a Shared value returns on both
\* parties the sum of the two shares (s0 + s1 + k after the public k was
\* added), at the cost of one open round, followed in a build with debug
\* assertions by one check_eq exchange.
C9_SharedReveal ==
  \A p \in Party :
    (cur.op = "reveal" /\ pc[p] = "done" /\ is_shared(x[p])) =>
      /\ res[p] = FAdd(x[0].v, x[1].v)
      /\ ref # NoVal => res[p] = ref
      /\ Kinds(p) = <<"open">> \o CheckEqEvts
\* reveal(from_add_shared(s_i) + from_public(k)) has returned, debug build
C9_Witness ==
  /\ cur.op = "reveal" /\ BothDone /\ debug /\ nops = 1
  /\ is_shared(x[0]) /\ x[0].v # FZero /\ x[1].v # FZero
  /\ ref # NoVal /\ res[0] = ref /\ res[1] = ref
  /\ Kinds(0) = <<"open", "check_eq">> /\ Kinds(1) = <<"open", "check_eq">>

\* C10 as claimed: with party 1's share corrupted, publicize never
\* completes: its check_eq aborts the run.
C10_Original ==
  \A p \in Party : ~(cur.op = "publicize" /\ debug /\ bad /\ pc[p] = "done")
\* C10 (desync detection), amended: in a build with debug assertions the
\* check_eq of publicize aborts the run with Desynchronized when the two
\* parties hold different Public values, and only then; a corrupted share
\* of a Shared value is not detected: both parties open the same sum, no
\* party aborts, and publicize leaves the same Public value on both.
C10_DesyncDetection ==
  /\ \A p \in Party :
       status[p] = "Desynchronized" =>
         /\ debug /\ cur.op \in {"publicize", "reveal"}
         /\ ~is_shared(x[0]) /\ ~is_shared(x[1]) /\ x[0].v # x[1].v
  /\ ( /\ cur.op = "publicize" /\ debug
       /\ ~is_shared(x[0]) /\ ~is_shared(x[1]) /\ x[0].v # x[1].v )
     => \A p \in Party : pc[p] # "done"
  /\ (cur.op = "publicize" /\ bad) =>
       /\ \A p \in Party : status[p] = "ok"
       /\ BothDone => (x[0] = x[1] /\ ~is_shared(x[0]))
\* a debug build has publicized a Shared value whose share on party 1 was
\* corrupted: both parties are through check_eq with the same Public value
C10_Witness ==
  /\ cur.op = "publicize" /\ bad /\ debug /\ BothDone
  /\ Kinds(0) = <<"open", "check_eq">> /\ Kinds(1) = <<"open", "check_eq">>
  /\ status[0] = "ok" /\ status[1] = "ok"
  /\ ~is_shared(x[0]) /\ x[0] = x[1]

\* C11 (divergence is surfaced), as claimed: once the parties' tags
\* disagree, a party that ends the next publicize, in a build with debug
\* assertions, ends it with the fatal error of check_eq; none completes it
\* silently, and none ends it with another error.
C11_Original ==
  \A p \in Party :
    (drv.forked /\ debug /\ cur.op = "publicize" /\ pc[p] \in {"done", "dead"})
      => status[p] = "Desynchronized"

\* the step puts a newly constructed value in the accumulator's place
Anew == IsLift(cur')
\* party p's value is Shared before the step and Public after it
Declassified(p) == is_shared(x[p]) /\ ~is_shared(x'[p]) /\ ~Anew

\* C12 as claimed: a Shared value becomes Public only in publicize or
\* reveal, and in a step that went through a network round.
C12_OriginalStep ==
  \A p \in Party :
    Declassified(p) =>
      cur.op \in {"publicize", "reveal"} /\ pc[p] \in Waiting
C12_Original == [][C12_OriginalStep]_vars
\* C12 (lifecycle), amended: a Shared value becomes Public only through
\* publicize, on the answer to the exchange of its open, the new value
\* being the sum of the two shares, or through set_shared(false), which
\* issues no exchange and takes the party's own share as the Public
\* value; reveal returns the value and leaves its argument as it was; no
\* other operation of MpcField turns a Shared value into a Public one.
C12_Step ==
  \A p \in Party :
    /\ Declassified(p) =>
          \/ /\ cur.op = "publicize" /\ pc[p] = "open" /\ Kinds(p) = <<"open">>
             /\ chan[Peer(p)] # <<>>
             /\ x'[p] = Public(FAdd(x[p].v, Head(chan[Peer(p)]).data[1]))
          \/ /\ cur.op = "set_shared" /\ ~cur.b /\ pc[p] = "ready"
             /\ x'[p] = Public(x[p].v)
             /\ evts'[p] = <<>> /\ chan' = chan
    /\ cur.op = "reveal" /\ cur'.op = "reveal" => x'[p] = x[p]
C12_Lifecycle == [][C12_Step]_vars
\* set_shared(false) has made Public, without any exchange, two shares that
\* differ: the parties hold different Public values
C12_Witness ==
  /\ cur.op = "set_shared" /\ ~cur.b /\ BothDone
  /\ ~is_shared(x[0]) /\ ~is_shared(x[1]) /\ x[0].v # x[1].v
  /\ evts[0] = <<>> /\ evts[1] = <<>>

\* C13 (double equals add-self): double and double_in_place of a value x
\* of either tag complete in one step without any exchange, as x + x
\* does, and leave what x + x gives: the same tag as x and, on each party,
\* the same field element or share.
C13_Step ==
  \A p \in Party :
    (cur.op \in {"double", "double_in_place"} /\ Leaves(p, "ready")) =>
      /\ add(x[p], x[p], p).kind = "ret"
      /\ x'[p] = add(x[p], x[p], p).val
      /\ x'[p].tag = x[p].tag
      /\ pc'[p] = "done" /\ evts'[p] = <<>> /\ chan' = chan
C13_DoubleIsAddSelf == [][C13_Step]_vars
\* both parties have doubled a Shared value that is not zero, locally
C13_Witness ==
  /\ cur.op \in {"double", "double_in_place"} /\ BothDone
  /\ is_shared(x[0]) /\ is_shared(x[1]) /\ evts[0] = <<>> /\ evts[1] = <<>>
  /\ ref # NoVal /\ ref # FZero /\ FAdd(x[0].v, x[1].v) = ref

\* C14 (public-constant transparency): adding from_public(0) to a value x
\* of either tag, on either side, and multiplying x by from_public(1), on
\* either side, leave on each party the very x it held, field element or
\* share, with its tag, in one step without any exchange.
C14_Step ==
  \A p \in Party :
    ( /\ Leaves(p, "ready")
      /\ \/ cur.op = "add" /\ Operand(p) = from_public(FZero)
         \/ cur.op = "mul" /\ Operand(p) = from_public(FOne) )
    => x'[p] = x[p] /\ pc'[p] = "done" /\ evts'[p] = <<>> /\ chan' = chan
C14_NeutralConstants == [][C14_Step]_vars
\* from_public(1) * x is done on both parties, x a Shared value whose
\* shares are not zero
C14_Witness ==
  /\ cur.op = "mul" /\ cur.lhs = "other" /\ Operand(0) = from_public(FOne)
  /\ BothDone /\ is_shared(x[0]) /\ is_shared(x[1])
  /\ x[0].v # FZero /\ x[1].v # FZero
  /\ ref # NoVal /\ FAdd(x[0].v, x[1].v) = ref

\* C15 (public constructors stay public): when from_repr, from_str, one,
\* two_adic_root_of_unity, large_subgroup_root_of_unity or
\* multiplicative_generator has returned a value, it is Public on the
\* party, it is the plain field's value, and no exchange was issued; when
\* the plain field has no value (an integer not below the modulus, a
\* malformed string, no large subgroup) none is returned, Shared or other.
C15_PublicConstructors ==
  \A p \in Party :
    (cur.op \in Constructors /\ pc[p] = "done") =>
      /\ evts[p] = <<>>
      /\ IF Constructed(cur) = NoVal
         THEN res[p] = NoneVal
         ELSE /\ res[p] # NoneVal
              /\ ~is_shared(x[p])
              /\ x[p] = Public(Constructed(cur))
\* from_str of a two-digit string has returned the same Public value, not
\* zero, on both parties, in the place of a Shared value
C15_Witness ==
  /\ cur.op = "from_str" /\ Len(cur.yv[0]) = 2 /\ BothDone
  /\ x[0] = Public(Digits(cur.yv[0])) /\ x[1] = x[0] /\ x[0].v # FZero
  /\ ref = x[0].v

\* C16 (unsupported operations fail loudly): frobenius_map, legendre, sqrt
\* and sqrt_in_place end the party's run with a panic at their first step,
\* for a Public and for a Shared argument: the argument is left as it
\* was, nothing is returned, no exchange is issued, and the operation
\* never completes.
C16_Step ==
  \A p \in Party :
    cur.op \in Unsupported =>
      /\ pc'[p] # "done"
      /\ Leaves(p, "ready") =>
           /\ pc'[p] = "dead" /\ status'[p] = "Unimplemented"
           /\ x'[p] = x[p] /\ res'[p] = NoVal
           /\ evts'[p] = <<>> /\ chan' = chan
C16_UnsupportedFailLoudly == [][C16_Step]_vars
\* sqrt of a Shared value has ended the run of both parties
C16_Witness ==
  /\ cur.op = "sqrt" /\ is_shared(x[0]) /\ is_shared(x[1])
  /\ \A p \in Party : pc[p] = "dead" /\ status[p] = "Unimplemented" /\ res[p] = NoVal

\* C17 (fault propagation), as claimed: in mode mpc a process that a fault
\* has ended has released its channel: deinit was performed.
C17_Original ==
  \A p \in Party :
    (opt.field = "mpc" /\ status[p] # "ok") => proc[p].net = "down"

\* C18 (channel scoping), as claimed: no process, in any mode, has issued
\* a channel operation while its channel was not up (before init, without
\* init, or after deinit).
C18_Original == \A p \in Party : ~proc[p].stray

\* the value two shares open to
Opened(s) == FAdd(s[0], s[1])
\* the share the dummy source gives party p for every component
DummyShare(p) == IF p = 0 THEN FOne ELSE FZero

\* C19 (dummy Beaver source): triple gives party 0 the share 1 and party 1
\* the share 0 for each of a, b, c, and inv_pair for each of r, r_inv; the
\* opened values satisfy a * b = c and r * r_inv = 1; and it is these
\* shares that mask the factors in every Beaver exchange a party sends,
\* the first and the later ones alike.
C19_DummySource ==
  /\ \A p \in Party :
       /\ triple(p) = <<DummyShare(p), DummyShare(p), DummyShare(p)>>
       /\ inv_pair(p) = <<DummyShare(p), DummyShare(p)>>
       /\ (pc[p] \in {"mul", "inv_mul"} /\ chan[p] # <<>>) =>
            chan[p][Len(chan[p])].data =
              << FSub(loc[p][1], DummyShare(p)), FSub(loc[p][2], DummyShare(p)) >>
  /\ FMul(Opened([p \in Party |-> triple(p)[1]]),
          Opened([p \in Party |-> triple(p)[2]]))
       = Opened([p \in Party |-> triple(p)[3]])
  /\ FMul(Opened([p \in Party |-> inv_pair(p)[1]]),
          Opened([p \in Party |-> inv_pair(p)[2]])) = FOne
\* both parties have sent the masked factors of a multiplication that is
\* not the first since the lift
C19_Witness ==
  /\ cur.op = "mul" /\ nops = 2
  /\ pc[0] = "mul" /\ pc[1] = "mul" /\ chan[0] # <<>> /\ chan[1] # <<>>
  /\ loc[0][1] # FZero /\ loc[1][1] # FZero

\* the exchanges of kind k among those party p issued in this instruction
CountKind(p, k) == Cardinality({i \in 1 .. Len(evts[p]) : evts[p][i].kind = k})
\* party p has returned from mpc_squaring_circuit
WitnessDone(p) ==
  /\ drv.stage = "witness" /\ cur.op = "mpc_squaring_circuit"
  /\ pc[p] = "done" /\ status[p] = "ok"

\* C20 as claimed: witness generation with n squarings issues n
\* multiplication rounds, and the channel statistics show n exchanges.
C20_Original ==
  \A p \in Party :
    WitnessDone(p) => CountKind(p, "mul") = drv.n /\ proc[p].stats = drv.n
\* C20 (repeated-squaring witness generation), amended: in mode mpc with n
\* squarings the chain a, a^2, ..., a^(2^n) is computed in the plain field
\* and handed out as shares in one exchange of n + 1 field elements per
\* party: no multiplication round is issued, the channel statistics show
\* that one exchange, and the shares of the two parties sum to the chain.
\* publicize_unwrap of the chain's end then costs one open round (and the
\* check_eq exchange of a build with debug assertions) and gives a^(2^n)
\* as public input; the Groth16 driver then resets the statistics, so its
\* final statistics show nothing of the witness generation.
C20_WitnessGeneration ==
  /\ \A p \in Party :
       /\ WitnessDone(p) =>
            /\ evts[p] = <<[kind |-> "exchange", size |-> drv.n + 1]>>
            /\ CountKind(p, "mul") = 0
            /\ proc[p].stats = 1
            /\ Len(chain[p]) = drv.n + 1
            /\ \A i \in 1 .. Len(chain[p]) : is_shared(chain[p][i])
       /\ ( /\ drv.stage = "inputs" /\ pc[p] = "done" /\ status[p] = "ok"
            /\ ~drv.forked /\ ~bad ) =>
            /\ Kinds(p) = <<"open">> \o CheckEqEvts
            /\ proc[p].stats = 2 + Len(CheckEqEvts)
            /\ proc[p].inputs = SqIter(drv.a, drv.n)
       /\ (drv.stage = "reset" /\ pc[p] = "done") =>
            opt.proof_system = "groth16" /\ proc[p].stats = 0
  /\ (WitnessDone(0) /\ WitnessDone(1)) =>
       \A i \in 1 .. drv.n + 1 :
         FAdd(chain[0][i].v, chain[1][i].v) = RawChain(drv.a, drv.n)[i]
\* both parties hold their shares, none of them zero, of the chain of
\* two squarings that starts at 2, after one exchange each
C20_Witness ==
  /\ WitnessDone(0) /\ WitnessDone(1)
  /\ drv.n = 2 /\ drv.a = FTwo
  /\ proc[0].stats = 1 /\ proc[1].stats = 1
  /\ \A i \in 1 .. 3 : chain[0][i].v # FZero /\ chain[1][i].v # FZero

\* C21 (sharing invariant of mpc_squaring_circuit): each party issues
\* exactly one exchange, whose payload has squarings + 1 field elements;
\* a party that has returned holds a chain of squarings + 1 values, every
\* one of them Shared; and once both have returned, for every index i in
\* 0 .. squarings party 0's share plus party 1's share of chain[i] is
\* start^(2^i).
C21_SharingInvariant ==
  cur.op = "mpc_squaring_circuit" =>
    /\ \A p \in Party :
         /\ pc[p] # "ready" =>
              evts[p] = <<[kind |-> "exchange", size |-> cur.n + 1]>>
         /\ pc[p] \notin {"ready", "xchg"} =>
              /\ pc[p] = "done" /\ status[p] = "ok"
              /\ Len(chain[p]) = cur.n + 1
              /\ \A i \in 1 .. cur.n + 1 : is_shared(chain[p][i])
    /\ BothDone =>
         \A i \in 0 .. cur.n :
           FAdd(chain[0][i + 1].v, chain[1][i + 1].v) = SqIter(cur.yv[0], i)
\* both parties have returned from mpc_squaring_circuit(2, MaxSq) called
\* outside the driver, and party 0's randomness was not zero: its shares
\* are not the chain itself
C21_Witness ==
  /\ drv.stage = "free" /\ cur.op = "mpc_squaring_circuit" /\ BothDone
  /\ cur.n = MaxSq /\ cur.yv[0] = FTwo
  /\ \A i \in 1 .. cur.n + 1 :
       /\ chain[0][i].v # SqIter(FTwo, i - 1)
       /\ chain[1][i].v # FZero

\* C22 (set_shared is local and reversible): a party's set_shared(b)
\* completes at once without any exchange; it leaves the value as it is
\* when the tag already equals b, and otherwise changes the tag alone, the
\* field element staying what it was, so that set_shared(false) applied to
\* the result of set_shared(true) on a Public value gives that Public value
\* back; and nothing changes the value between the two calls.
C22_Step ==
  /\ (cur' # cur /\ cur'.op = "set_shared") => x' = x
  /\ \A p \in Party :
       (cur.op = "set_shared" /\ Leaves(p, "ready")) =>
         /\ pc'[p] = "done" /\ status'[p] = "ok"
         /\ chan' = chan /\ evts'[p] = <<>>
         /\ res'[p] # NoneVal
         /\ cur.b = is_shared(x[p]) => x'[p] = x[p]
         /\ is_shared(x'[p]) = cur.b
         /\ x'[p].v = x[p].v
         /\ (~is_shared(x[p]) /\ cur.b) => set_shared(x'[p], FALSE) = x[p]
         /\ (is_shared(x[p]) /\ ~cur.b) => x'[p] = Public(x[p].v)
C23_Step ==
  \A p \in Party :
    (cur.op = "inverse" /\ cur' = cur /\ pc[p] \in {"ready"} \cup Waiting
       /\ pc'[p] # pc[p]) =>
      /\ res'[p] = NoneVal <=> (pc[p] = "ready" /\ x[p] = Public(FZero))
      /\ res'[p] = NoneVal =>
           x'[p] = x[p] /\ pc'[p] = "done" /\ status'[p] = "ok"
      /\ (pc[p] = "ready" /\ ~is_shared(x[p]) /\ x[p].v # FZero) =>
           /\ x'[p] = Public(FInv(x[p].v))
           /\ pc'[p] = "done" /\ status'[p] = "ok"
      /\ is_shared(x[p]) =>
           /\ pc[p] = "ready" => pc'[p] = "inv_mul" /\ x'[p] = x[p]
           /\ pc'[p] = "done" => status'[p] = "ok" /\ is_shared(x'[p])
           /\ pc[p] = "inv_open" =>
                LET m == open(loc[p][1], Head(chan[Peer(p)]))
                IN  /\ pc[Peer(p)] = "inv_open" => m = FAdd(x[0].v, x[1].v)
                    /\ pc[Peer(p)] # "inv_open" => pc'[p] = pc[Peer(p)]
                    /\ IF m = FZero
                       THEN /\ pc'[p] = "dead" /\ status'[p] = "Panic"
                            /\ x'[p] = x[p]
                       ELSE pc'[p] = "done"
====
